---- MODULE Spec2Model ----
(***************************************************************************)
(* A model of spam-statistics: the aggregation functions of                *)
(* src/statistics.rs, the domain ranking and mailbox ingestion of          *)
(* src/spam.rs, and the report run spam_statistics of src/main.rs.         *)
(*                                                                         *)
(* Conventions.                                                            *)
(*   - A NaiveDate is the number of days since 1970-01-01 (a Thursday);    *)
(*     the date comes from a file's modification time (spam.rs:76).        *)
(*   - A SpamResult (f64) is held in tenths: 59 stands for 5.9, -12 for    *)
(*     -1.2.  The integer cast of statistics.rs:42 is modelled on that     *)
(*     representation.                                                     *)
(*   - A String is a sequence of one-character strings.                    *)
(*   - The f64 quotient ham / (spam + ham) is held as the pair             *)
(*     [num, den]; den = 0 stands for the NaN that 0.0 / 0.0 produces.     *)
(***************************************************************************)
EXTENDS Integers, Sequences, FiniteSets, TLC

\* ------------------------------------------------------------------ bounds

\* Longest input of records that differ in date and classification.
MaxLen == 2
\* Longest input of records that differ in score.
MaxScoreLen == 3
\* Longest input of records that differ in sender.
MaxSenderLen == 3
\* Dates run from day 0 to day MaxDate.
MaxDate == 7
\* take_weeks is called with num in 0..MaxWeeks.
MaxWeeks == 2
\* Most files in one mailbox batch.
MaxFiles == 2
\* Most additional maildirs on the command line.
MaxMaildirs == 1

\* last_n_days is called with n_days in 0..MaxDays.
MaxDays == 2

\* Each of the four action counts is in 0..MaxCount.
MaxCount == 2

\* Most slices of one pie chart.
MaxSlices == 2

\* --------------------------------------------------------------- utilities

SeqsUpTo(S, n) == UNION {[1..k -> S] : k \in 0..n}

Range(s) == {s[i] : i \in DOMAIN s}

Front(s) == SubSeq(s, 1, Len(s) - 1)

Last(s) == s[Len(s)]

MapSeq(s, F(_)) == [i \in DOMAIN s |-> F(s[i])]

RECURSIVE SumSeq(_)
SumSeq(s) == IF s = <<>> THEN 0 ELSE s[1] + SumSeq(Tail(s))

\* slice::sort_by is a stable sort: an element goes after every element that
\* is less than it and after every earlier element that is equal to it.
SortBy(s, Less(_, _)) ==
    LET n == Len(s)
        pos(i) == 1 + Cardinality({j \in 1..n :
                        \/ Less(s[j], s[i])
                        \/ (~Less(s[i], s[j]) /\ j < i)})
    IN  [k \in 1..n |-> s[CHOOSE i \in 1..n : pos(i) = k]]

\* Iterator::take_while: the longest prefix whose items all satisfy P; the
\* items behind the first one that fails P are never looked at.
TakeWhile(s, P(_)) ==
    LET failing == {i \in DOMAIN s : ~P(s[i])}
        n == IF failing = {} THEN Len(s)
             ELSE (CHOOSE i \in failing : \A j \in failing : i <= j) - 1
    IN  SubSeq(s, 1, n)

\* An insert in place of the increment: the count of a key stays at 1.
EntryInsertOne(m, k) == (k :> 1) @@ m

\* A HashMap is a function from its keys; the empty map is <<>>.
\* entry(k).or_default() followed by += 1.
EntryIncrement(m, k) ==
    IF k \in DOMAIN m THEN [m EXCEPT ![k] = @ + 1] ELSE m @@ (k :> 1)

\* HashMap::into_iter().collect::<Vec<_>>(): the (key, value) pairs in an
\* order the hasher decides; every order of the keys is possible.
IterOrders(m) ==
    LET n == Cardinality(DOMAIN m)
    IN  {[i \in 1..n |-> <<f[i], m[f[i]]>>] :
            f \in {g \in [1..n -> DOMAIN m] :
                     \A i, j \in 1..n : i # j => g[i] # g[j]}}

\* ------------------------------------------------------------ record model

Dates == 0..MaxDate

\* Scores in tenths: -1.2, -0.7, 0.3, 2.5, 5.9.
Scores == {-12, -7, 3, 25, 59}

\* From header values.
Senders == {
    <<"a", "@", "x">>,
    <<"N", " ", "<", "b", "@", "x", ">">>,
    <<"c", "@", "y">>,
    <<"p">>,
    <<"N", " ", "o">>,
    <<>> }

DefaultSender == <<"a", "@", "x">>

\* statistics.rs: struct SpamEmail.
SpamEmail(D, S, B, F) ==
    [date_received : D, spam_result : S, is_spam : B, from : F]

ScoreEmails == SpamEmail({0}, Scores, {TRUE}, {DefaultSender})
DateEmails == SpamEmail(Dates, {59}, BOOLEAN, {DefaultSender})
SenderEmails == SpamEmail({0}, {59}, BOOLEAN, Senders)

\* The inputs the aggregation functions are applied to: the score functions
\* to records that differ in score, the date functions to records that differ
\* in date and classification, last_n_days and take_weeks, which read
\* nothing but the date, to records that differ in date,
\* the ranking to records that differ in sender and classification.
ScoreInputs == SeqsUpTo(ScoreEmails, MaxScoreLen)
DateInputs == SeqsUpTo(DateEmails, MaxLen)
DayInputs == SeqsUpTo(SpamEmail(Dates, {59}, {TRUE}, {DefaultSender}), MaxLen)
SenderInputs == SeqsUpTo(SenderEmails, MaxSenderLen)

\* ------------------------------------------------- statistics.rs functions

\* A cast that rounds down: -0.7 goes to -1.
CastFloor(x) == x \div 10

\* `x as i32` on an f64: the fraction is dropped, towards zero.  (The cast
\* saturates at the i32 limits; no score of the model is near them.)
CastToBin(x) == IF x >= 0 THEN x \div 10 ELSE -((-x) \div 10)

\* statistics.rs:35-43.
quantize_spam_results(iter) == MapSeq(iter, LAMBDA email : CastToBin(email.spam_result))

\* A counting loop that seeds the map with bucket 0 before it reads its input.
RECURSIVE BinCountsSeeded(_)
BinCountsSeeded(items) ==
    IF items = <<>> THEN (0 :> 0)
    ELSE EntryIncrement(BinCountsSeeded(Front(items)), Last(items))

\* statistics.rs:176-180: the counting loop of into_bins.
RECURSIVE BinCounts(_)
BinCounts(items) ==
    IF items = <<>> THEN <<>>
    ELSE EntryIncrement(BinCounts(Front(items)), Last(items))

\* into_bins without its sort: the pairs in the order the map gave them.
SortBinsSkipped(collected) == collected

\* statistics.rs:182-184: the collected pairs, sorted by key.
SortBins(collected) == SortBy(collected, LAMBDA one, two : one[1] < two[1])

\* statistics.rs:175-185: every result into_bins can return for items.
into_bins(items) == {SortBins(collected) : collected \in IterOrders(BinCounts(items))}

\* The counting loop with its two branches exchanged: a spam record is
\* counted as ham and a ham record as spam.
RECURSIVE CountSpamExchanged(_)
CountSpamExchanged(emails) ==
    IF emails = <<>> THEN <<>>
    ELSE LET counts == CountSpamExchanged(Front(emails))
             email == Last(emails)
             date == email.date_received
             count == IF date \in DOMAIN counts THEN counts[date]
                      ELSE [spam |-> 0, ham |-> 0]
             bumped == IF email.is_spam THEN [count EXCEPT !.ham = @ + 1]
                       ELSE [count EXCEPT !.spam = @ + 1]
         IN  (date :> bumped) @@ counts

\* statistics.rs:56-65: the counting loop of spam_counts.
RECURSIVE CountSpam(_)
CountSpam(emails) ==
    IF emails = <<>> THEN <<>>
    ELSE LET counts == CountSpam(Front(emails))
             email == Last(emails)
             date == email.date_received
             count == IF date \in DOMAIN counts THEN counts[date]
                      ELSE [spam |-> 0, ham |-> 0]
             bumped == IF email.is_spam THEN [count EXCEPT !.spam = @ + 1]
                       ELSE [count EXCEPT !.ham = @ + 1]
         IN  (date :> bumped) @@ counts

\* spam_counts without its sort.
SortCountsSkipped(collected) == collected

\* statistics.rs:67-69: the collected pairs, sorted by date.
SortCounts(collected) == SortBy(collected, LAMBDA one, two : one[1] < two[1])

\* statistics.rs:51-70: every result spam_counts can return.
spam_counts(emails) ==
    {SortCounts(collected) : collected \in IterOrders(CountSpam(emails))}

\* The f64 quotient a / b of two counts.
Quotient(a, b) == [num |-> a, den |-> b]

\* The rate computed as ham / spam.
RateOfHamOverSpam(count) == Quotient(count.ham, count.spam)

\* statistics.rs:78-82: the closure mapped over the counts.
RateOf(count) == Quotient(count.ham, count.spam + count.ham)

\* statistics.rs:73-83.
misclassification_rate(iter) ==
    {MapSeq(counts, LAMBDA entry : <<entry[1], RateOf(entry[2])>>) :
        counts \in spam_counts(iter)}

\* The test of the partition with the cutoff date on the wrong side.
IsUpToCutoff(email, earliest_date) == email.date_received <= earliest_date

\* statistics.rs:98: the predicate handed to partition_point.
IsBeforeCutoff(email, earliest_date) == email.date_received < earliest_date

\* slice::partition_point: on a slice that the predicate partitions (true
\* for a prefix, false for the rest) the length of the prefix; on any other
\* slice the index is unspecified, and may be any index of 0..len.
PartitionPoints(data, earliest_date) ==
    LET before(i) == IsBeforeCutoff(data[i], earliest_date)
        partitioned == \A i, j \in DOMAIN data : (i < j /\ before(j)) => before(i)
    IN  IF partitioned THEN {Cardinality({i \in DOMAIN data : before(i)})}
        ELSE 0..Len(data)

\* Option<&[SpamEmail]>.
None == [some |-> FALSE, slice |-> <<>>]

Some(slice) == [some |-> TRUE, slice |-> slice]

\* statistics.rs:85-101: every result last_n_days can return on `today`.
last_n_days(data, n_days, today) ==
    LET earliest_date == today - n_days
    IN  IF data = <<>> THEN {None}
        ELSE IF data[1].date_received > earliest_date THEN {Some(data)}
        ELSE IF Last(data).date_received < earliest_date THEN {None}
        ELSE {Some(SubSeq(data, i + 1, Len(data))) :
                i \in PartitionPoints(data, earliest_date)}

\* chrono: `Datelike::weekday(date) as u64` is the discriminant of Weekday,
\* Mon = 0, Tue = 1, ..., Sun = 6.  Day 0 is a Thursday.
Weekday(date) == (date + 3) % 7

\* statistics.rs:104-107.
previous_sunday(date) == date - Weekday(date)

\* The records collected without the sort.
WeeklyBinsUnsorted(emails) == emails

\* statistics.rs:153-157: the vector a WeeklyBinIter is built on.
weekly_bins(emails) ==
    SortBy(emails, LAMBDA a, b : a.date_received < b.date_received)

\* statistics.rs:122-126: next() pops the last record of the vector and
\* moves its date; this is the sequence of all the items next() yields.
RECURSIVE WeeklyBinIter(_)
WeeklyBinIter(vec) ==
    IF vec = <<>> THEN <<>>
    ELSE <<[Last(vec) EXCEPT !.date_received = previous_sunday(@)]>>
             \o WeeklyBinIter(Front(vec))

\* A u64 is held as four 16-bit limbs, the least significant first, so that
\* the wrap-around of its arithmetic is computed and not assumed.
LimbBase == 65536

\* statistics.rs:134.
DAYS_PER_WEEK == 7

\* The u64 of a count below 2^31.
U64(n) == <<n % LimbBase, n \div LimbBase, 0, 0>>

\* A subtraction that stops at 0.
SaturatingSubOne(x) ==
    LET nonzero == {i \in 1..4 : x[i] # 0}
        k == CHOOSE i \in nonzero : \A j \in nonzero : i <= j
    IN  [overflows |-> FALSE,
         value |-> IF nonzero = {} THEN x
                   ELSE [i \in 1..4 |-> IF i < k THEN LimbBase - 1
                                        ELSE IF i = k THEN x[i] - 1 ELSE x[i]]]

\* statistics.rs:137: `num - 1` on a u64: the difference modulo 2^64, and
\* whether the subtraction overflows (0 - 1 wraps to 2^64 - 1).
SubOne(x) ==
    LET nonzero == {i \in 1..4 : x[i] # 0}
        k == CHOOSE i \in nonzero : \A j \in nonzero : i <= j
    IN  [overflows |-> nonzero = {},
         value |-> IF nonzero = {} THEN [i \in 1..4 |-> LimbBase - 1]
                   ELSE [i \in 1..4 |-> IF i < k THEN LimbBase - 1
                                        ELSE IF i = k THEN x[i] - 1 ELSE x[i]]]

\* statistics.rs:134, 137: `* DAYS_PER_WEEK` on a u64: the product modulo
\* 2^64, and whether the multiplication overflows.
RECURSIVE CarryInto(_, _)
CarryInto(x, i) ==
    IF i = 1 THEN 0
    ELSE (DAYS_PER_WEEK * x[i - 1] + CarryInto(x, i - 1)) \div LimbBase

TimesDaysPerWeek(x) ==
    [overflows |-> CarryInto(x, 5) > 0,
     value |-> [i \in 1..4 |-> (DAYS_PER_WEEK * x[i] + CarryInto(x, i)) % LimbBase]]

\* chrono: NaiveDate::checked_sub_days is None for a count of days above
\* i32::MAX, and otherwise the date that many days earlier.  (It is also
\* None for a date before NaiveDate::MIN, some 262,000 years back; no date
\* of the model is near it.)
checked_sub_days(date, days) ==
    IF days[4] # 0 \/ days[3] # 0 \/ days[2] >= LimbBase \div 2 THEN None
    ELSE Some(date - (days[1] + LimbBase * days[2]))

\* statistics.rs:137: the count of days handed to Days::new.
DaysBack(num) == TimesDaysPerWeek(SubOne(U64(num)).value).value

\* statistics.rs:136-138: the date the unwrap yields.
EarliestDate(now, num) == checked_sub_days(previous_sunday(now), DaysBack(num)).slice

\* statistics.rs:140: the take_while predicate.
KeepsWeek(e, earliest_date) == e.date_received > earliest_date

\* statistics.rs:133-141, for num >= 1.
take_weeks(vec, num, now) ==
    LET earliest_date == EarliestDate(now, num)
    IN  TakeWhile(WeeklyBinIter(vec), LAMBDA e : KeepsWeek(e, earliest_date))

\* The two ways the crate is built: with overflow checks (debug), where an
\* arithmetic overflow panics, and without them (release), where it wraps.
Builds == {"debug", "release"}

\* statistics.rs:136-138: take_weeks panics when the arithmetic overflows in
\* a build that checks it, and when checked_sub_days yields None, on which
\* the unwrap panics.
TakeWeeksPanics(num, build) ==
    \/ /\ build = "debug"
       /\ \/ SubOne(U64(num)).overflows
          \/ TimesDaysPerWeek(SubOne(U64(num)).value).overflows
    \/ ~checked_sub_days(0, DaysBack(num)).some

\* --------------------------------------------------------- domain ranking

\* The position of the first c in s, 0 when there is none.
IndexOf(s, c) ==
    IF c \in Range(s) THEN CHOOSE i \in DOMAIN s : s[i] = c /\ \A j \in 1..(i - 1) : s[j] # c
    ELSE 0

\* spam.rs:125: `message.from.parse::<Mailbox>()` of the email crate, for the
\* two shapes "addr" and "name <addr>": a value with an angle address yields
\* what the brackets hold, a bare value yields itself, and an empty value, an
\* unclosed or empty bracket or a bare value holding a space is an error.
ParseMailbox(from) ==
    LET lt == IndexOf(from, "<")
        gt == IndexOf(from, ">")
        err == [ok |-> FALSE, address |-> <<>>]
    IN  IF lt > 0
        THEN IF gt > lt + 1
             THEN [ok |-> TRUE, address |-> SubSeq(from, lt + 1, gt - 1)]
             ELSE err
        ELSE IF from = <<>> \/ " " \in Range(from) \/ gt > 0
             THEN err
             ELSE [ok |-> TRUE, address |-> from]

\* spam.rs:130-135: split("@"), drop the first piece, take the second one.
SecondPiece(address) ==
    LET at == IndexOf(address, "@")
        rest == SubSeq(address, at + 1, Len(address))
        at2 == IndexOf(rest, "@")
    IN  IF at = 0 THEN [some |-> FALSE, domain |-> <<>>]
        ELSE [some |-> TRUE,
              domain |-> IF at2 = 0 THEN rest ELSE SubSeq(rest, 1, at2 - 1)]

\* The loop run over every message, the filter left out.
IsAnyMessage(email) == TRUE

\* spam.rs:122: the filter in front of the loop.
IsMisclassified(email) == ~email.is_spam

\* spam.rs:120-138: the loop over the misclassified messages; the domain
\* counts and the error count it ends with.
RECURSIVE TallyDomains(_)
TallyDomains(messages) ==
    IF messages = <<>> THEN [counts |-> <<>>, error_count |-> 0]
    ELSE LET before == TallyDomains(Front(messages))
             mailbox == ParseMailbox(Last(messages).from)
             piece == SecondPiece(mailbox.address)
         IN  IF ~mailbox.ok \/ ~piece.some
             THEN [before EXCEPT !.error_count = @ + 1]
             ELSE [before EXCEPT !.counts = EntryIncrement(@, piece.domain)]

\* The sort with its comparison turned round: smallest count first.
RankDomainsAscending(collected) == SortBy(collected, LAMBDA one, two : one[2] < two[2])

\* spam.rs:145-147: the collected pairs, sorted by count, largest first.
RankDomains(collected) == SortBy(collected, LAMBDA one, two : two[2] < one[2])

\* spam.rs:115-148: every ranking top_offending_domains can return.
top_offending_domains(iter) ==
    LET tally == TallyDomains(SelectSeq(iter, IsMisclassified))
    IN  {RankDomains(collected) : collected \in IterOrders(tally.counts)}

\* spam.rs:140-143: the number the function writes to stderr.
LoggedErrorCount(iter) == TallyDomains(SelectSeq(iter, IsMisclassified)).error_count

\* -------------------------------------------------------------- ingestion

Digits == <<"0", "1", "2", "3", "4", "5", "6", "7", "8", "9">>

IsDigit(c) == \E d \in DOMAIN Digits : Digits[d] = c

DigitValue(c) == (CHOOSE d \in DOMAIN Digits : Digits[d] = c) - 1

\* The longest prefix of s made of '.' and digits.
NumberPrefix(s) == TakeWhile(s, LAMBDA c : c = "." \/ IsDigit(c))

\* spam.rs:22-23, 33-43: SPAMD_RESULT_REGEX, [^\[]*\[(-?[.0-9]*), on the
\* header value: no match without a '['; otherwise group 1 is the optional
\* '-' and the run of '.' and digits behind the first '['.
CaptureResult(value) ==
    LET bracket == IndexOf(value, "[")
        after == SubSeq(value, bracket + 1, Len(value))
        negative == after # <<>> /\ after[1] = "-"
        body == NumberPrefix(IF negative THEN Tail(after) ELSE after)
    IN  IF bracket = 0 THEN [ok |-> FALSE, text |-> <<>>]
        ELSE [ok |-> TRUE, text |-> (IF negative THEN <<"-">> ELSE <<>>) \o body]

RECURSIVE DecimalValue(_)
DecimalValue(digits) ==
    IF digits = <<>> THEN 0
    ELSE 10 * DecimalValue(Front(digits)) + DigitValue(Last(digits))

\* spam.rs:60: `spam_result.as_str().parse::<f64>()` on a captured text: an
\* optional '-', then digits with at most one '.', and at least one digit.
\* The value is kept in tenths, to the first fractional digit.
ParseF64(text) ==
    LET negative == text # <<>> /\ text[1] = "-"
        body == IF negative THEN Tail(text) ELSE text
        dot == IndexOf(body, ".")
        whole == IF dot = 0 THEN body ELSE SubSeq(body, 1, dot - 1)
        fraction == IF dot = 0 THEN <<>> ELSE SubSeq(body, dot + 1, Len(body))
        tenths == 10 * DecimalValue(whole)
                    + (IF fraction = <<>> THEN 0 ELSE DigitValue(fraction[1]))
    IN  IF \/ whole \o fraction = <<>>
           \/ \E i \in DOMAIN fraction : fraction[i] = "."
        THEN [ok |-> FALSE, value |-> 0]
        ELSE [ok |-> TRUE, value |-> IF negative THEN -tenths ELSE tenths]

\* headers.get(name): the headers of a message are a function from the
\* names that are present to their values.
HasHeader(headers, name) == name \in DOMAIN headers

\* spam.rs:45-53: is_spam is true when X-Spam is present with value "Yes".
IsSpamHeader(headers) ==
    HasHeader(headers, "X-Spam") /\ headers["X-Spam"] = <<"Y", "e", "s">>

\* spam.rs:21-67: the record of a message, or the error.
make_spam_email(headers, date_received) ==
    LET err == [ok |-> FALSE, email |-> <<>>]
        capture == CaptureResult(headers["X-Spamd-Result"])
        parsed == ParseF64(capture.text)
    IN  IF ~HasHeader(headers, "X-Spamd-Result") THEN err
        ELSE IF ~capture.ok THEN err
        ELSE IF ~HasHeader(headers, "From") THEN err
        ELSE IF ~parsed.ok THEN err
        ELSE [ok |-> TRUE,
              email |-> [date_received |-> date_received,
                         spam_result |-> parsed.value,
                         is_spam |-> IsSpamHeader(headers),
                         from |-> headers["From"]]]

\* spam.rs:69-81: a file that cannot be opened or read as UTF-8 is an error;
\* the date is the file's modification time.
load_spam(file) ==
    IF ~file.readable THEN [ok |-> FALSE, email |-> <<>>]
    ELSE make_spam_email(file.headers, file.mtime)

\* The records of the files whose load_spam is Ok, in the order of the files.
LoadedRecords(files) ==
    MapSeq(SelectSeq(files, LAMBDA file : load_spam(file).ok),
           LAMBDA file : load_spam(file).email)

\* The number of files whose load_spam is an error.
FailedLoads(files) == Len(SelectSeq(files, LAMBDA file : ~load_spam(file).ok))

\* spam.rs:196-201: the loop of load_spam_virtual_mailbox_base: an Ok record
\* is pushed, an error is written to stderr with eprintln.
load_spam_virtual_mailbox_base(files) ==
    [records |-> LoadedRecords(files), eprintln |-> FailedLoads(files)]

\* spam.rs:167-170: load_spam_maildir keeps the Ok records with
\* filter_map(|email| load_spam(email).ok()) and writes nothing.
load_spam_maildir(files) ==
    [records |-> LoadedRecords(files), eprintln |-> 0]

\* Mailbox files: a message tagged as spam, a message without X-Spam, and
\* messages whose record cannot be built.
MailFile(mtime, headers) == [readable |-> TRUE, mtime |-> mtime, headers |-> headers]

SpamFile ==
    MailFile(0, [x \in {"X-Spamd-Result", "X-Spam", "From"} |->
        CASE x = "X-Spamd-Result" -> <<"d", " ", "[", "5", ".", "9", " ", "/">>
          [] x = "X-Spam" -> <<"Y", "e", "s">>
          [] x = "From" -> <<"a", "@", "x">>])

HamFile ==
    MailFile(2, [x \in {"X-Spamd-Result", "From"} |->
        CASE x = "X-Spamd-Result" -> <<"[", "-", "1", ".", "2">>
          [] x = "From" -> <<"N", " ", "<", "b", "@", "x", ">">>])

NoResultFile ==
    MailFile(0, [x \in {"X-Spam", "From"} |->
        CASE x = "X-Spam" -> <<"Y", "e", "s">>
          [] x = "From" -> <<"a", "@", "x">>])

NoBracketFile ==
    MailFile(0, [x \in {"X-Spamd-Result", "From"} |->
        CASE x = "X-Spamd-Result" -> <<"n", "o">>
          [] x = "From" -> <<"a", "@", "x">>])

BadScoreFile ==
    MailFile(0, [x \in {"X-Spamd-Result", "From"} |->
        CASE x = "X-Spamd-Result" -> <<"[", "1", ".", "2", ".", "3">>
          [] x = "From" -> <<"a", "@", "x">>])

NoFromFile ==
    MailFile(0, [x \in {"X-Spamd-Result"} |-> <<"[", "3">>])

UnreadableFile == [readable |-> FALSE, mtime |-> 0, headers |-> <<>>]

MailFiles ==
    {SpamFile, HamFile, NoResultFile, NoBracketFile, BadScoreFile, NoFromFile,
     UnreadableFile}

Batches == SeqsUpTo(MailFiles, MaxFiles)

\* A line of the output of `rspamc stat` that ACTION_REGEX (rspamd.rs:10-11)
\* matches, as its two capture groups: the action name and the run of digits.
ActionLine(action, digits) == [captures |-> TRUE, action |-> action, occurrences |-> digits]

\* A line ACTION_REGEX does not match.
OtherLine == [captures |-> FALSE, action |-> "", occurrences |-> <<>>]

\* Outputs of `rspamc stat`: one with a line for each of the four actions,
\* one without a reject and a greylist line and with an action
\* load_rspamd_statistics does not know, an empty one, and one whose run of
\* digits is empty (the regex allows it).
RspamcOutputs ==
    { <<OtherLine, ActionLine("reject", <<"1">>), ActionLine("greylist", <<"0">>),
        ActionLine("add header", <<"2">>), ActionLine("no action", <<"5">>)>>,
      <<ActionLine("add header", <<"2">>), ActionLine("no action", <<"5">>),
        ActionLine("rewrite subject", <<"3">>)>>,
      <<>>,
      <<ActionLine("reject", <<>>)>> }

\* rspamd.rs:19: #[derive(Default)], every count 0.
DefaultMessageActions == [reject |-> 0, greylist |-> 0, add_header |-> 0, no_action |-> 0]

\* rspamd.rs:84: `capture[2].parse().unwrap()`: an empty run of digits does
\* not parse and the unwrap panics.
ParseOccurrences(digits) ==
    IF digits = <<>> THEN [ok |-> FALSE, value |-> 0]
    ELSE [ok |-> TRUE, value |-> DecimalValue(digits)]

\* rspamd.rs:85-91: the match on the action name.
AssignAction(actions, line) ==
    LET occurrences == ParseOccurrences(line.occurrences).value
    IN  CASE line.action = "reject" -> [actions EXCEPT !.reject = occurrences]
          [] line.action = "greylist" -> [actions EXCEPT !.greylist = occurrences]
          [] line.action = "add header" -> [actions EXCEPT !.add_header = occurrences]
          [] line.action = "no action" -> [actions EXCEPT !.no_action = occurrences]
          [] OTHER -> actions

\* rspamd.rs:78-92: the loop over the lines of the output.
RECURSIVE ReadActions(_)
ReadActions(lines) ==
    IF lines = <<>> THEN [panics |-> FALSE, message_actions |-> DefaultMessageActions]
    ELSE LET before == ReadActions(Front(lines))
             line == Last(lines)
         IN  IF before.panics \/ ~line.captures THEN before
             ELSE IF ~ParseOccurrences(line.occurrences).ok
                  THEN [before EXCEPT !.panics = TRUE]
                  ELSE [before EXCEPT !.message_actions = AssignAction(@, line)]

\* rspamd.rs:72-97: the statistics of an output of a run of rspamc that
\* succeeded.
load_rspamd_statistics(output) ==
    [panics |-> ReadActions(output).panics,
     statistics |-> output,
     message_actions |-> ReadActions(output).message_actions]

\* rspamd.rs:20-25: the action counts load_rspamd_statistics can report.
MessageActions ==
    {load_rspamd_statistics(output).message_actions : output \in RspamcOutputs}

\* The charts made whether or not there are records.
RecordChartsAlways(results) ==
    <<"X-Spam-Result Distribution", "Spam Misclassification Rate",
      "Daily Spam Results", "Daily Received Spam">>

\* main.rs:109-147: the charts made from the records, none when there are
\* no records.
RecordCharts(results) ==
    IF results # <<>>
    THEN <<"X-Spam-Result Distribution", "Spam Misclassification Rate",
           "Daily Spam Results", "Daily Received Spam">>
    ELSE <<>>

\* main.rs:145: what the run prints when it makes the charts.
ChartsStdout(results) == IF results # <<>> THEN <<>> ELSE <<"No spam.">>

\* A run with a mailbox loaded after the first chart of the records.
RecordChartStepsLoadLate(results) ==
    <<"aggregate", "aggregate", "render", "ingest", "aggregate", "render",
      "render", "aggregate", "render">>

\* main.rs:110-143: the steps of the four charts of the records, in the
\* order of the vec! expression: each series is computed where its chart is
\* drawn, but for the box plot, whose series is spam_scores.
ChartSteps ==
    << <<"aggregate", "render">>, <<"aggregate", "render">>, <<"render">>,
       <<"aggregate", "render">> >>

\* main.rs:104-143: spam_scores, then the charts up to the k-th one.
RECURSIVE StepsToChart(_)
StepsToChart(k) ==
    IF k = 0 THEN <<"aggregate">> ELSE StepsToChart(k - 1) \o ChartSteps[k]

\* main.rs:104-147: the steps of MakeCharts when no drawing fails.
RecordChartSteps(results) ==
    StepsToChart(Len(RecordCharts(results)))

\* ------------------------------------------------------------- pie chart

\* plot.rs:39-43: struct PieSlice; the ratio is an f64 quotient of counts.
PieSlice(L, C, R) == [label : L, color : C, ratio : R]

\* Slices with a ratio of 0.0, of 0.25 and of 0.0 / 0.0 (NaN).
Slices ==
    PieSlice({"No Action", "Reject"}, {"Green", "Violet"},
             {Quotient(0, 4), Quotient(1, 4), Quotient(0, 0)})

SliceInputs == SeqsUpTo(Slices, MaxSlices)

\* plot.rs:64-77: From<Color> for RGBColor.
IntoRGBColor(value) ==
    CASE value = "Red" -> "RED"
      [] value = "Orange" -> "ORANGE"
      [] value = "Yellow" -> "YELLOW"
      [] value = "Green" -> "GREEN"
      [] value = "Blue" -> "BLUE"
      [] value = "Indigo" -> "INDIGO"
      [] value = "Violet" -> "PURPLE"

\* plot.rs:316: `slice.ratio != 0.0`; a quotient is 0.0 when its numerator
\* is 0 and its denominator is not, and NaN != 0.0 is true.
RatioIsNotZero(slice) == ~(slice.ratio.num = 0 /\ slice.ratio.den # 0)

\* Every slice is drawn, the filter left out.
AllSlices(data) == data

\* plot.rs:316: the slices that pass the filter.
DrawnSlices(data) == SelectSeq(data, RatioIsNotZero)

\* plot.rs:316-325: the three lists make_pie hands to Pie::new.
make_pie(data) ==
    [sizes |-> MapSeq(DrawnSlices(data), LAMBDA slice : slice.ratio),
     colors |-> MapSeq(DrawnSlices(data), LAMBDA slice : IntoRGBColor(slice.color)),
     labels |-> MapSeq(DrawnSlices(data), LAMBDA slice : slice.label)]

\* rspamd.rs:20-25: the counts action_breakdown is applied to.
ActionCounts ==
    [reject : 0..MaxCount, greylist : 0..MaxCount, add_header : 0..MaxCount,
     no_action : 0..MaxCount]

\* main.rs:40-47: make_label: the name, the count and the share in percent
\* with one decimal ({:.1}, here in tenths, rounded to the nearest); the
\* share of a total of 0 is 0.0 / 0.0 and is written "NaN".
make_label(label, occurrences, total) ==
    [name |-> label,
     occurrences |-> occurrences,
     percent |-> IF total = 0 THEN "NaN"
                 ELSE (2000 * occurrences + total) \div (2 * total)]

\* main.rs:31-70: the four slices, each with the quotient of its count and
\* the total; the total is not tested against 0.
action_breakdown(actions) ==
    LET total == actions.no_action + actions.greylist + actions.add_header
                    + actions.reject
    IN  << [label |-> make_label("No Action", actions.no_action, total),
            color |-> "Green",
            ratio |-> Quotient(actions.no_action, total)],
           [label |-> make_label("Greylist", actions.greylist, total),
            color |-> "Blue",
            ratio |-> Quotient(actions.greylist, total)],
           [label |-> make_label("Mark as Spam", actions.add_header, total),
            color |-> "Orange",
            ratio |-> Quotient(actions.add_header, total)],
           [label |-> make_label("Reject", actions.reject, total),
            color |-> "Red",
            ratio |-> Quotient(actions.reject, total)] >>

\* ------------------------------------------------------------------ state

VARIABLES
    emails,     \* the input a function is applied to
    op,         \* the function that was applied, "none" before the call
    panicked,   \* TRUE when the call panicked
    out,        \* the series the call returned
    keys,       \* into_bins: the keys it was given
    vec,        \* weekly_bins: the vector of the WeeklyBinIter
    now,        \* take_weeks, last_n_days: Local::now().date_naive()
    num,        \* take_weeks: the number of weeks
    logged,     \* top_offending_domains: the error count written to stderr
    n_days,     \* last_n_days: the number of days
    pc,              \* spam_statistics: where the run is
    maildirs_left,   \* the maildirs of the command line not yet loaded
    message_actions, \* the action counts of load_rspamd_statistics
    rspamd_image,    \* the images of the rspamd action breakdown (0 or 1)
    spam_results,    \* the records loaded so far
    malformed,       \* the files read so far whose record could not be built
    wellformed,      \* the files read so far whose record could be built
    diagnostics,     \* the per-file diagnostics written to stderr so far
    stdout,          \* the lines printed so far
    images,          \* the charts made from the records
    attachments,     \* the images of the composed email
    failed_chart,    \* the chart whose drawing failed, "none" when none did
    statistics,      \* the lines of the output of rspamc
    loaded_files,    \* the files the records of spam_results were built from
    trace            \* the steps of the run so far, by phase

stat_vars == <<emails, op, panicked, out, keys, vec, now, num, logged, n_days>>

run_vars == <<pc, maildirs_left, message_actions, rspamd_image, spam_results,
              malformed, wellformed, diagnostics, stdout, images, attachments,
              failed_chart, statistics, loaded_files, trace>>

vars == <<stat_vars, run_vars>>

\* No function has been called yet.
StatIdle ==
    /\ emails = <<>>
    /\ op = "none"
    /\ panicked = FALSE
    /\ out = <<>>
    /\ keys = <<>>
    /\ vec = <<>>
    /\ now = 0
    /\ num = 0
    /\ logged = 0
    /\ n_days = 0

\* spam_statistics has been entered, with its maildirs argument.
RunStart ==
    /\ pc = "start"
    /\ maildirs_left \in 0..MaxMaildirs
    /\ message_actions = DefaultMessageActions
    /\ rspamd_image = <<>>
    /\ spam_results = <<>>
    /\ malformed = 0
    /\ wellformed = 0
    /\ diagnostics = 0
    /\ stdout = <<>>
    /\ images = <<>>
    /\ attachments = <<>>
    /\ failed_chart = "none"
    /\ statistics = <<>>
    /\ loaded_files = <<>>
    /\ trace = <<>>

\* ----------------------------------------- applying the aggregation functions

StatInit == StatIdle /\ RunStart /\ maildirs_left = 0

\* One call is modelled per behaviour: a function is applied while no call
\* has been made.
Idle == op = "none"

\* The call `name` on `input` returns `series`.
Returns(name, input, series) ==
    /\ op' = name
    /\ emails' = input
    /\ panicked' = FALSE
    /\ out' = series

QuantizeSpamResults ==
    /\ Idle
    /\ \E input \in ScoreInputs :
            Returns("quantize_spam_results", input, quantize_spam_results(input))
    /\ UNCHANGED <<keys, vec, now, num, logged, n_days, run_vars>>

\* The score distribution: the buckets of the records, binned.
IntoBins ==
    /\ Idle
    /\ \E input \in ScoreInputs :
            /\ \E series \in into_bins(quantize_spam_results(input)) :
                    Returns("into_bins", input, series)
            /\ keys' = quantize_spam_results(input)
    /\ UNCHANGED <<vec, now, num, logged, n_days, run_vars>>

MisclassificationRate ==
    /\ Idle
    /\ \E input \in DateInputs :
            \E series \in misclassification_rate(input) :
                Returns("misclassification_rate", input, series)
    /\ UNCHANGED <<keys, vec, now, num, logged, n_days, run_vars>>

WeeklyBins ==
    /\ Idle
    /\ \E input \in DateInputs :
            /\ Returns("weekly_bins", input, WeeklyBinIter(weekly_bins(input)))
            /\ vec' = weekly_bins(input)
    /\ UNCHANGED <<keys, now, num, logged, n_days, run_vars>>

TakeWeeks ==
    /\ Idle
    /\ \E input \in DayInputs, today \in Dates, weeks \in 0..MaxWeeks :
            /\ op' = "take_weeks"
            /\ emails' = input
            /\ vec' = weekly_bins(input)
            /\ now' = today
            /\ num' = weeks
            /\ panicked' \in {TakeWeeksPanics(weeks, build) : build \in Builds}
            /\ out' = IF panicked' THEN <<>>
                      ELSE take_weeks(weekly_bins(input), weeks, today)
    /\ UNCHANGED <<keys, logged, n_days, run_vars>>

TopOffendingDomains ==
    /\ Idle
    /\ \E input \in SenderInputs :
            /\ \E ranking \in top_offending_domains(input) :
                    Returns("top_offending_domains", input, ranking)
            /\ logged' = LoggedErrorCount(input)
    /\ UNCHANGED <<keys, vec, now, num, n_days, run_vars>>

\* make_pie on a slice of PieSlice: the lists it draws, or the panic of one
\* of its expect calls when a drawing step fails.
DrawPie ==
    /\ Idle
    /\ \E data \in SliceInputs :
            \/ Returns("make_pie", data, make_pie(data))
            \/ /\ op' = "make_pie"
               /\ emails' = data
               /\ panicked' = TRUE
               /\ out' = <<>>
    /\ UNCHANGED <<keys, vec, now, num, logged, n_days, run_vars>>

\* last_n_days on a slice of records, on a day `today`.
LastNDays ==
    /\ Idle
    /\ \E input \in DayInputs, today \in Dates, days \in 0..MaxDays :
            /\ \E result \in last_n_days(input, days, today) :
                    Returns("last_n_days", input, result)
            /\ now' = today
            /\ n_days' = days
    /\ UNCHANGED <<keys, vec, num, logged, run_vars>>

\* action_breakdown on the counts of a MessageActions.
ActionBreakdown ==
    /\ Idle
    /\ \E actions \in ActionCounts :
            Returns("action_breakdown", actions, action_breakdown(actions))
    /\ UNCHANGED <<keys, vec, now, num, logged, n_days, run_vars>>

StatNext ==
    \/ ActionBreakdown
    \/ DrawPie
    \/ LastNDays
    \/ QuantizeSpamResults
    \/ IntoBins
    \/ MisclassificationRate
    \/ WeeklyBins
    \/ TakeWeeks
    \/ TopOffendingDomains

StatSpec == StatInit /\ [][StatNext]_vars

\* ------------------------------------------------- the run of spam_statistics

Init == StatIdle /\ RunStart

\* main.rs:82-86: load_rspamd_statistics on the output of rspamc; a run of
\* rspamc that fails ends the run with the error, a count that does not
\* parse with a panic.
LoadRspamdStatistics ==
    /\ pc = "start"
    /\ trace' = trace \o <<"ingest">>
    /\ \/ \E output \in RspamcOutputs :
            LET loaded == load_rspamd_statistics(output)
            IN  IF loaded.panics
                THEN /\ pc' = "panic"
                     /\ UNCHANGED <<message_actions, statistics>>
                ELSE /\ pc' = "rspamd_loaded"
                     /\ message_actions' = loaded.message_actions
                     /\ statistics' = loaded.statistics
       \/ /\ pc' = "error"
          /\ UNCHANGED <<message_actions, statistics>>
    /\ UNCHANGED <<maildirs_left, rspamd_image, spam_results, malformed, wellformed,
                   diagnostics, stdout, images, attachments, failed_chart,
                   loaded_files, stat_vars>>

\* main.rs:89-95: the pie chart of the actions; a drawing step that fails
\* panics (the expect calls of make_pie).
MakePie ==
    /\ pc = "rspamd_loaded"
    /\ trace' = trace \o <<"render">>
    /\ \/ /\ rspamd_image' = <<"Breakdown of Rspamd Actions">>
          /\ pc' = "pie_made"
          /\ UNCHANGED failed_chart
       \/ /\ pc' = "panic"
          /\ failed_chart' = "Breakdown of Rspamd Actions"
          /\ UNCHANGED rspamd_image
    /\ UNCHANGED <<maildirs_left, message_actions, spam_results, malformed, wellformed,
                   diagnostics, stdout, images, attachments, loaded_files, statistics,
                   stat_vars>>

\* main.rs:97: load_spam_virtual_mailbox_base on the files the base holds; a
\* directory that cannot be listed ends the run with the error.
LoadSpamVirtualMailboxBase ==
    /\ pc = "pie_made"
    /\ trace' = trace \o <<"ingest">>
    /\ \/ \E files \in Batches :
            LET loaded == load_spam_virtual_mailbox_base(files)
            IN  /\ spam_results' = loaded.records
                /\ diagnostics' = diagnostics + loaded.eprintln
                /\ malformed' = malformed + FailedLoads(files)
                /\ wellformed' = wellformed + Len(files) - FailedLoads(files)
                /\ loaded_files' = SelectSeq(files, LAMBDA file : load_spam(file).ok)
                /\ pc' = "base_loaded"
       \/ /\ pc' = "error"
          /\ UNCHANGED <<spam_results, diagnostics, malformed, wellformed, loaded_files>>
    /\ UNCHANGED <<maildirs_left, message_actions, rspamd_image, stdout, images,
                   attachments, failed_chart, statistics, stat_vars>>

\* main.rs:98-102: one turn of the loop over the maildirs: the records of a
\* maildir that loads are appended, a maildir that fails to list is passed over.
LoadSpamMaildir ==
    /\ pc = "base_loaded"
    /\ maildirs_left > 0
    /\ maildirs_left' = maildirs_left - 1
    /\ trace' = trace \o <<"ingest">>
    /\ \/ \E files \in Batches :
            LET loaded == load_spam_maildir(files)
            IN  /\ spam_results' = spam_results \o loaded.records
                /\ diagnostics' = diagnostics + loaded.eprintln
                /\ malformed' = malformed + FailedLoads(files)
                /\ wellformed' = wellformed + Len(files) - FailedLoads(files)
                /\ loaded_files' = loaded_files
                        \o SelectSeq(files, LAMBDA file : load_spam(file).ok)
       \/ UNCHANGED <<spam_results, diagnostics, malformed, wellformed, loaded_files>>
    /\ UNCHANGED <<pc, message_actions, rspamd_image, stdout, images, attachments,
                   failed_chart, statistics, stat_vars>>

\* main.rs:104-147: the charts of the records, or "No spam."; a drawing step
\* that fails panics (the expect calls of the make_ functions).
MakeCharts ==
    /\ pc = "base_loaded"
    /\ maildirs_left = 0
    /\ \/ /\ images' = RecordCharts(spam_results)
          /\ stdout' = stdout \o ChartsStdout(spam_results)
          /\ trace' = trace \o RecordChartSteps(spam_results)
          /\ pc' = "charts_made"
          /\ UNCHANGED failed_chart
       \/ /\ \E k \in DOMAIN RecordCharts(spam_results) :
                /\ failed_chart' = RecordCharts(spam_results)[k]
                /\ trace' = trace \o StepsToChart(k)
          /\ pc' = "panic"
          /\ UNCHANGED <<images, stdout>>
    /\ UNCHANGED <<maildirs_left, message_actions, rspamd_image, spam_results,
                   malformed, wellformed, diagnostics, attachments, loaded_files,
                   statistics, stat_vars>>

\* main.rs:149-153: the message with the pie chart and the charts; an address
\* or a message that cannot be built ends the run with the error.
MakeMessage ==
    /\ pc = "charts_made"
    /\ trace' = trace \o <<"compose">>
    /\ \/ /\ attachments' = rspamd_image \o images
          /\ pc' = "composed"
       \/ /\ pc' = "error"
          /\ UNCHANGED attachments
    /\ UNCHANGED <<maildirs_left, message_actions, rspamd_image, spam_results,
                   malformed, wellformed, diagnostics, stdout, images, failed_chart,
                   loaded_files, statistics, stat_vars>>

\* main.rs:156-164: the message is handed to SMTP; the run returns Ok whether
\* or not the send succeeds.
Send ==
    /\ pc = "composed"
    /\ trace' = trace \o <<"send">>
    /\ pc' = "done"
    /\ \/ stdout' = stdout \o <<"Email sent successfully.">>
       \/ stdout' = stdout
    /\ UNCHANGED <<maildirs_left, message_actions, rspamd_image, spam_results,
                   malformed, wellformed, diagnostics, images, attachments, failed_chart,
                   loaded_files, statistics, stat_vars>>

Next ==
    \/ LoadRspamdStatistics
    \/ MakePie
    \/ LoadSpamVirtualMailboxBase
    \/ LoadSpamMaildir
    \/ MakeCharts
    \/ MakeMessage
    \/ Send

Spec == Init /\ [][Next]_vars

\* ------------------------------------------------------------------ claims

Count(s, k) == Cardinality({i \in DOMAIN s : s[i] = k})

MinOf(S) == CHOOSE x \in S : \A y \in S : x <= y

MaxOf(S) == CHOOSE x \in S : \A y \in S : y <= x

\* Day 0 is Thursday 1970-01-01, so day 3 is a Sunday.
IsSunday(date) == date % 7 = 3

\* The series with one entry per integer bucket from the least to the
\* greatest key, each with its number of occurrences.
DenseSeries(ks) ==
    LET lo == MinOf(Range(ks))
        hi == MaxOf(Range(ks))
    IN  [i \in 1..(hi - lo + 1) |-> <<lo + i - 1, Count(ks, lo + i - 1)>>]

C2_ContiguousDates ==
    op = "misclassification_rate" =>
        \A i \in 1..(Len(out) - 1) : out[i + 1][1] = out[i][1] + 1

\* C2 as amended: the per-day series has one entry per date on which a
\* record was received, in strictly ascending date order; a day without a
\* record has no entry, so neighbouring entries are one or more days apart.
C2_OneEntryPerObservedDate ==
    op = "misclassification_rate" =>
        /\ {out[i][1] : i \in DOMAIN out} = {emails[i].date_received : i \in DOMAIN emails}
        /\ \A i \in 1..(Len(out) - 1) : out[i + 1][1] >= out[i][1] + 1

\* Records on day 3 and day 1 only: the series skips day 2.
C2_Witness ==
    /\ op = "misclassification_rate"
    /\ Len(emails) = 2
    /\ emails[1].date_received = 3
    /\ emails[2].date_received = 1
    /\ Len(out) = 2
    /\ out[1][1] = 1
    /\ out[2][1] = 3

\* C3: every entry of the misclassification_rate series has a rate between
\* 0 and 1, and none has spam + ham = 0.
C3_RateInUnitInterval ==
    op = "misclassification_rate" =>
        \A i \in DOMAIN out :
            /\ out[i][2].den > 0
            /\ 0 <= out[i][2].num
            /\ out[i][2].num <= out[i][2].den

\* A day with both a spam and a ham record, and a day with ham only.
C3_Witness ==
    /\ op = "misclassification_rate"
    /\ \E i \in DOMAIN out : out[i][2].num = 1 /\ out[i][2].den = 2
    /\ \E e \in Range(emails) : e.is_spam
    /\ \E e \in Range(emails) : ~e.is_spam

\* C4: every record the weekly iterator yields carries the Sunday on or
\* before the record's original date: its weekday is Sunday and it is 0 to 6
\* days before the original date.
C4_RebucketedToSunday ==
    op = "weekly_bins" =>
        \A i \in DOMAIN out :
            LET original == vec[Len(vec) - i + 1].date_received
                moved == out[i].date_received
            IN  IsSunday(moved) /\ original - moved \in 0..6

\* C5: the counts of the ranked domains plus the logged parse-failure count
\* add up to the number of records with is_spam = false.
C5_RankingAccountsForHam ==
    op = "top_offending_domains" =>
        SumSeq([i \in DOMAIN out |-> out[i][2]]) + logged
            = Cardinality({i \in DOMAIN emails : ~emails[i].is_spam})

\* Two ham records of one domain, one ham record that does not parse.
C5_Witness ==
    /\ op = "top_offending_domains"
    /\ Len(emails) = 3
    /\ logged = 1
    /\ \E i \in DOMAIN out : out[i][2] = 2

\* C6: for num >= 1 take_weeks yields exactly the re-bucketed records whose
\* date is on or after the cutoff, num - 1 weeks before the week start of
\* today; only records strictly before the cutoff are left out.
C6_KeepsFromCutoffOn ==
    (op = "take_weeks" /\ num >= 1) =>
        out = SelectSeq(WeeklyBinIter(vec),
                        LAMBDA e : e.date_received >= previous_sunday(now) - (num - 1) * 7)

\* C7: on an empty input each distribution builder returns an empty series
\* and does not panic.
C7_EmptyInEmptyOut ==
    (emails = <<>> /\ op \in {"quantize_spam_results", "into_bins",
                               "misclassification_rate", "weekly_bins"}) =>
        (out = <<>> /\ ~panicked)

\* The binner was applied to the empty input.
C7_Witness == emails = <<>> /\ op = "into_bins" /\ out = <<>> /\ ~panicked

\* C8 as claimed: when no record was loaded the report is cut short and no
\* image at all is produced.
C8_NoImageWhenEmpty ==
    (pc \in {"charts_made", "composed", "done"} /\ spam_results = <<>>) =>
        (rspamd_image = <<>> /\ images = <<>> /\ attachments = <<>>)

\* C8 as amended: when no record was loaded, none of the charts of the
\* records is made and "No spam." is printed, but the run goes on: the pie
\* chart of the rspamd actions, made before the records are loaded, is the
\* one image of the email that is composed and handed to SMTP.
C8_OnlyThePieWhenEmpty ==
    (pc \in {"charts_made", "composed", "done"} /\ spam_results = <<>>) =>
        /\ images = <<>>
        /\ Len(rspamd_image) = 1
        /\ \E i \in DOMAIN stdout : stdout[i] = "No spam."
        /\ pc \in {"composed", "done"} => attachments = rspamd_image

\* A run without records that handed its email to SMTP.
C8_Witness ==
    /\ pc = "done"
    /\ spam_results = <<>>
    /\ Len(attachments) = 1

\* C9: on every ingestion path a file whose record cannot be built is
\* skipped with a diagnostic, and every well-formed record is returned.
C9_SkippedWithDiagnostic ==
    /\ diagnostics = malformed
    /\ Len(spam_results) = wellformed

\* C10: into_bins returns one (key, count) pair per distinct key of its
\* input, the count being the key's number of occurrences, in strictly
\* ascending key order, with no key the input lacks, and the counts add up
\* to the length of the input.
C10_BinsAreExactCounts ==
    op = "into_bins" =>
        /\ Len(out) = Cardinality(Range(keys))
        /\ \A i \in DOMAIN out :
              out[i][1] \in Range(keys) /\ out[i][2] = Count(keys, out[i][1])
        /\ \A i, j \in DOMAIN out : i < j => out[i][1] < out[j][1]
        /\ SumSeq([i \in DOMAIN out |-> out[i][2]]) = Len(keys)

\* Keys out of order, one of them twice, with a gap between them.
C10_Witness ==
    /\ op = "into_bins"
    /\ keys = <<5, -1, 5>>
    /\ out = << <<-1, 1>>, <<5, 2>> >>

\* C11: quantize_spam_results yields one bucket per record, in the order of
\* the records, and each bucket is the score with its fraction dropped
\* towards zero: a score of 0 or more lies in [bucket, bucket + 1), a
\* negative score in (bucket - 1, bucket].  (Scores are in tenths.)
C11_TruncatesTowardZero ==
    op = "quantize_spam_results" =>
        /\ Len(out) = Len(emails)
        /\ \A i \in DOMAIN emails :
              LET score == emails[i].spam_result
              IN  IF score >= 0
                  THEN 10 * out[i] <= score /\ score < 10 * out[i] + 10
                  ELSE 10 * out[i] - 10 < score /\ score <= 10 * out[i]

\* The scores -0.7, -1.2 and 5.9, in that order.
C11_Witness ==
    /\ op = "quantize_spam_results"
    /\ Len(emails) = 3
    /\ emails[1].spam_result = -7
    /\ emails[2].spam_result = -12
    /\ emails[3].spam_result = 59
    /\ out = <<0, -1, 5>>

\* The sender domains of the records with is_spam = false whose From value
\* parses to an address with an '@', in the order of the records.
HamDomains(records) ==
    LET ham == SelectSeq(records, LAMBDA e :
                    /\ ~e.is_spam
                    /\ ParseMailbox(e.from).ok
                    /\ SecondPiece(ParseMailbox(e.from).address).some)
    IN  [i \in DOMAIN ham |-> SecondPiece(ParseMailbox(ham[i].from).address).domain]

\* The position at which a domain is first seen.
FirstSeen(domains, d) == MinOf({i \in DOMAIN domains : domains[i] = d})

\* C12: the ranking has one entry per distinct sender domain of the records
\* with is_spam = false, with the number of those records of that domain,
\* and the counts do not increase along the ranking.
C12_OneEntryPerDomainByCount ==
    op = "top_offending_domains" =>
        LET domains == HamDomains(emails)
        IN  /\ {out[i][1] : i \in DOMAIN out} = Range(domains)
            /\ Len(out) = Cardinality(Range(domains))
            /\ \A i \in DOMAIN out : out[i][2] = Count(domains, out[i][1])
            /\ \A i \in 1..(Len(out) - 1) : out[i][2] >= out[i + 1][2]

\* One ham record of domain y, then two of domain x: x is ranked first.
C12_Witness ==
    /\ op = "top_offending_domains"
    /\ HamDomains(emails) = << <<"y">>, <<"x">>, <<"x">> >>
    /\ out = << << <<"x">>, 2 >>, << <<"y">>, 1 >> >>

\* C13: domains with equal counts are ranked in the order in which they
\* were first seen in the input.
C13_TiesInFirstSeenOrder ==
    op = "top_offending_domains" =>
        \A i, j \in DOMAIN out :
            (i < j /\ out[i][2] = out[j][2]) =>
                FirstSeen(HamDomains(emails), out[i][1])
                    < FirstSeen(HamDomains(emails), out[j][1])

\* A ratio that is 0.0: no occurrence out of one or more.
IsZeroRatio(ratio) == ratio.num = 0 /\ ratio.den > 0

\* C14: make_pie draws exactly the slices whose ratio is not zero: the
\* sizes, colours and labels it hands to the pie have the same length, the
\* number of such slices, and the i-th of each comes from the i-th such
\* slice of the input; no drawn size is zero.
C14_DrawsTheNonZeroSlices ==
    (op = "make_pie" /\ ~panicked) =>
        LET kept == SelectSeq(emails, LAMBDA slice : ~IsZeroRatio(slice.ratio))
        IN  /\ Len(out.sizes) = Len(kept)
            /\ Len(out.colors) = Len(kept)
            /\ Len(out.labels) = Len(kept)
            /\ \A i \in DOMAIN kept :
                  /\ out.sizes[i] = kept[i].ratio
                  /\ out.colors[i] = IntoRGBColor(kept[i].color)
                  /\ out.labels[i] = kept[i].label
            /\ \A i \in DOMAIN out.sizes : ~IsZeroRatio(out.sizes[i])

\* A slice of ratio 0 in front of a slice of ratio 0.25: one slice is drawn.
C14_Witness ==
    /\ op = "make_pie"
    /\ ~panicked
    /\ Len(emails) = 2
    /\ IsZeroRatio(emails[1].ratio)
    /\ emails[1].label # emails[2].label
    /\ emails[1].color # emails[2].color
    /\ out.sizes = <<Quotient(1, 4)>>
    /\ out.labels = <<emails[2].label>>

\* C15: a chart whose drawing fails is a failure of that one image: it does
\* not end the run, and the other charts can still be made.
C15_RenderFailureIsPerImage ==
    failed_chart # "none" => pc # "panic"

\* The output has a line that reports the count 0 for the action.
ReportsZero(lines, action) ==
    \E i \in DOMAIN lines :
        /\ lines[i].captures
        /\ lines[i].action = action
        /\ lines[i].occurrences = <<"0">>

\* C16: no value that could not be obtained is replaced by a default that
\* reads as data: once the rspamd statistics are loaded, an action count of
\* 0 was reported as 0 by a line of the output, and every record with
\* is_spam = false was built from a message that has an X-Spam header.
C16_NoDefaultAsRealData ==
    /\ pc \in {"rspamd_loaded", "pie_made", "base_loaded", "charts_made",
                "composed", "done"} =>
            /\ message_actions.reject = 0 => ReportsZero(statistics, "reject")
            /\ message_actions.greylist = 0 => ReportsZero(statistics, "greylist")
            /\ message_actions.add_header = 0 => ReportsZero(statistics, "add header")
            /\ message_actions.no_action = 0 => ReportsZero(statistics, "no action")
    /\ \A i \in DOMAIN spam_results :
            ~spam_results[i].is_spam => HasHeader(loaded_files[i].headers, "X-Spam")

\* The number of records of a day with the given classification.
RecordsOn(records, date, spam) ==
    Cardinality({i \in DOMAIN records :
                    records[i].date_received = date /\ records[i].is_spam = spam})

SameBag(s, t) == \A x \in Range(s) \cup Range(t) : Count(s, x) = Count(t, x)

\* Every ordering of the items of a sequence.
Orderings(s) ==
    {[i \in DOMAIN s |-> s[f[i]]] :
        f \in {g \in [DOMAIN s -> DOMAIN s] : \A i, j \in DOMAIN s : i # j => g[i] # g[j]}}

\* The records with their dates moved to the start of their week.
Rebucketed(records) ==
    [i \in DOMAIN records |->
        [records[i] EXCEPT !.date_received = previous_sunday(@)]]

\* C18: the weekly transform does not depend on the order of its input:
\* weekly_bins yields every record once, latest date first, and
\* weekly_bins().take_weeks(N) yields exactly the records that pass the
\* cutoff test, none lost to the early exit; both yield the same multiset
\* for every ordering of the same records.
C18_WeeklyOrderIndependent ==
    /\ op = "weekly_bins" =>
            /\ SameBag(out, Rebucketed(emails))
            /\ \A i \in 1..(Len(out) - 1) :
                  out[i].date_received >= out[i + 1].date_received
            /\ \A other \in Orderings(emails) :
                  SameBag(WeeklyBinIter(weekly_bins(other)), out)
    /\ (op = "take_weeks" /\ ~panicked) =>
            /\ LET earliest_date == EarliestDate(now, num)
               IN  SameBag(out, SelectSeq(Rebucketed(emails),
                                          LAMBDA e : KeepsWeek(e, earliest_date)))
            /\ \A other \in Orderings(emails) :
                  SameBag(take_weeks(weekly_bins(other), num, now), out)

\* A record of day 7 in front of a record of day 0, two weeks asked for on
\* day 7: the later record is yielded, the earlier one is cut off.
C18_Witness ==
    /\ op = "take_weeks"
    /\ num = 2
    /\ now = 7
    /\ Len(emails) = 2
    /\ emails[1].date_received = 7
    /\ emails[2].date_received = 0
    /\ Len(out) = 1
    /\ out[1].date_received = previous_sunday(7)

\* The place of a phase in the claimed sequence.
PhaseRank(step) ==
    CASE step = "ingest" -> 1
      [] step = "aggregate" -> 2
      [] step = "render" -> 3
      [] step = "compose" -> 4
      [] step = "send" -> 5

\* C19 as claimed: the phases of a run occur strictly in sequence: all
\* ingestion, then all aggregation, then all rendering, then the email is
\* composed and handed to SMTP; no step of a later phase precedes a step of
\* an earlier one.
C19_PhasesInSequence ==
    \A i, j \in DOMAIN trace :
        i < j => PhaseRank(trace[i]) <= PhaseRank(trace[j])

\* C19 as amended: a run is one sequence of steps that starts with the
\* load of the rspamd statistics; all ingestion is over before any
\* aggregation of the records, and every chart is rendered before the
\* email is composed, which is before it is handed to SMTP; but the pie
\* chart of the rspamd actions is rendered second, before the mailboxes are
\* loaded (it is the only rendering in front of an ingestion), and from
\* then on aggregation and rendering alternate, each chart of the records
\* being rendered after all ingestion and after an aggregation.
C19_StepsInProgramOrder ==
    /\ trace # <<>> => trace[1] = "ingest"
    /\ \A i, j \in DOMAIN trace :
          i < j =>
            /\ trace[j] = "ingest" => trace[i] # "aggregate"
            /\ (trace[j] = "ingest" /\ trace[i] = "render") => i = 2
            /\ trace[i] = "compose" => trace[j] = "send"
            /\ trace[i] # "send"
    /\ \A j \in DOMAIN trace :
          (trace[j] = "render" /\ j # 2) =>
              \E i \in 1..(j - 1) : trace[i] = "aggregate"
    /\ pc \in {"pie_made", "base_loaded", "charts_made", "composed", "done"} =>
          (Len(trace) >= 2 /\ trace[2] = "render")

\* A finished run with records: the pie chart is rendered before the first
\* mailbox is loaded, and a chart is rendered in front of an aggregation.
C19_Witness ==
    /\ pc = "done"
    /\ spam_results # <<>>
    /\ trace[2] = "render"
    /\ trace[3] = "ingest"
    /\ \E i, j \in DOMAIN trace :
          i < j /\ trace[i] = "render" /\ trace[j] = "aggregate" /\ i > 2

\* The records are in ascending order of date.
IsSortedByDate(records) ==
    \A i, j \in DOMAIN records :
        i < j => records[i].date_received <= records[j].date_received

\* C20: on records sorted by date, with cutoff = today - n_days,
\* last_n_days returns None exactly when no record is dated on or after
\* the cutoff; otherwise it returns a non-empty slice, the suffix of the
\* records that holds all and only the records dated on or after the
\* cutoff, in their order.
C20_SuffixFromCutoff ==
    (op = "last_n_days" /\ IsSortedByDate(emails)) =>
        LET cutoff == now - n_days
            recent == SelectSeq(emails, LAMBDA e : e.date_received >= cutoff)
        IN  /\ out.some <=> recent # <<>>
            /\ out.some =>
                  /\ out.slice # <<>>
                  /\ out.slice = recent
                  /\ out.slice = SubSeq(emails, Len(emails) - Len(recent) + 1, Len(emails))

\* Two records, the first dated before the cutoff and the second on it:
\* the slice holds the second record only.
C20_Witness ==
    /\ op = "last_n_days"
    /\ Len(emails) = 2
    /\ emails[1].date_received < now - n_days
    /\ emails[2].date_received = now - n_days
    /\ out = Some(<<emails[2]>>)

\* C21: take_weeks is defined for num >= 1 only: with num = 0 the call
\* aborts (it panics, in a build with overflow checks as in one without)
\* and returns no series, not even an empty one; with num >= 1 and a
\* cutoff date that exists it returns without failing.
C21_TakeWeeksNeedsOneWeek ==
    op = "take_weeks" =>
        /\ num = 0 => (panicked /\ out = <<>>)
        /\ num >= 1 => ~panicked

\* take_weeks(0) on a record of the day of the call.
C21_Witness ==
    /\ op = "take_weeks"
    /\ num = 0
    /\ Len(emails) = 1
    /\ emails[1].date_received = now
    /\ panicked

\* The counts in the order of the slices of action_breakdown.
CountsInSliceOrder(actions) ==
    <<actions.no_action, actions.greylist, actions.add_header, actions.reject>>

\* C22: for every combination of the four action counts, all of them 0
\* included, action_breakdown returns four slices whose ratios lie between
\* 0 and 1 and add up to 1, and the ratio of a slice is exactly 0 if and
\* only if its count is 0.
C22_RatiosPartitionUnity ==
    op = "action_breakdown" =>
        /\ Len(out) = 4
        /\ \A i \in DOMAIN out :
              /\ out[i].ratio.den > 0
              /\ 0 <= out[i].ratio.num
              /\ out[i].ratio.num <= out[i].ratio.den
              /\ out[i].ratio.den = out[1].ratio.den
              /\ IsZeroRatio(out[i].ratio) <=> CountsInSliceOrder(emails)[i] = 0
        /\ SumSeq([i \in DOMAIN out |-> out[i].ratio.num]) = out[1].ratio.den

====
